---- MODULE Spec2Model ----
(***************************************************************************)
(* Model of the YACHAQ Python SDK client (yachaq/client.py, errors.py,     *)
(* models.py): one YachaqClient instance, the operation it is running, the *)
(* HTTP response the transport hands back and the outcome the operation    *)
(* gives its caller (a returned value or a raised exception).              *)
(*                                                                         *)
(* Python values are modelled as follows.  A dict key that is missing is   *)
(* Absent, a JSON null / Python None is None.  A JSON object is a set of   *)
(* <<key, value>> pairs, a JSON array a sequence, a header value a         *)
(* sequence of characters.                                                 *)
(***************************************************************************)
EXTENDS Integers, Sequences, FiniteSets, TLC

VARIABLES
    api_key,        \* self.api_key
    access_token,   \* self._access_token
    call,           \* the operation in progress and what its caller gets
    closed,         \* self._client is closed (httpx: ClientState.CLOSED)
    released,       \* how many times the connection resource was released
    teardowns,      \* how many calls of close() have completed
    calls           \* the operations of concurrent callers, one per caller

vars == <<api_key, access_token, call, closed, released, teardowns, calls>>

\* The connection and what the other variables leave alone.
conn == <<closed, released, teardowns>>

Absent == "<absent>"
None == "<None>"

(***************************************************************************)
(* dict.get(key, default) on a string-valued entry: the default stands in  *)
(* for a missing key only, a null that is there is returned as None.       *)
(***************************************************************************)
GetDefault(v, default) == IF v = Absent THEN default ELSE v

(***************************************************************************)
(* Python's int(str): surrounding blanks are stripped, one optional sign,  *)
(* then at least one decimal digit.  Anything else raises ValueError.      *)
(***************************************************************************)
Digits == {"0", "1", "2", "3", "4", "5", "6", "7", "8", "9"}

DigitVal(c) ==
    CASE c = "0" -> 0 [] c = "1" -> 1 [] c = "2" -> 2 [] c = "3" -> 3
      [] c = "4" -> 4 [] c = "5" -> 5 [] c = "6" -> 6 [] c = "7" -> 7
      [] c = "8" -> 8 [] c = "9" -> 9

RECURSIVE Strip(_)
Strip(s) ==
    IF s = <<>> THEN s
    ELSE IF Head(s) = " " THEN Strip(Tail(s))
    ELSE IF s[Len(s)] = " " THEN Strip(SubSeq(s, 1, Len(s) - 1))
    ELSE s

RECURSIVE DigitsVal(_)
DigitsVal(s) ==
    IF s = <<>> THEN 0
    ELSE 10 * DigitsVal(SubSeq(s, 1, Len(s) - 1)) + DigitVal(s[Len(s)])

AllDigits(s) == s # <<>> /\ \A i \in 1..Len(s) : s[i] \in Digits

PyInt(str) ==
    LET s == Strip(str)
        signed == s # <<>> /\ Head(s) \in {"-", "+"}
        body == IF signed THEN Tail(s) ELSE s
    IN  IF ~AllDigits(body) THEN [ok |-> FALSE, val |-> 0]
        ELSE IF signed /\ Head(s) = "-" THEN [ok |-> TRUE, val |-> 0 - DigitsVal(body)]
        ELSE [ok |-> TRUE, val |-> DigitsVal(body)]

(***************************************************************************)
(* Outcomes.  kind is "none" (nothing yet / no exception), "return" or     *)
(* "raise"; exc is the exception class.                                    *)
(***************************************************************************)
NoValue == [t |-> "none", items |-> <<>>]

NoOutcome ==
    [kind |-> "none", exc |-> "", code |-> "", message |-> "",
     validation_errors |-> <<>>, retry_after |-> 0, value |-> NoValue]

Return(value) == [NoOutcome EXCEPT !.kind = "return", !.value = value]

\* An exception that is not one of the SDK's classes.
Foreign(exc) == [NoOutcome EXCEPT !.kind = "raise", !.exc = exc]

YachaqError(message, code) ==
    [NoOutcome EXCEPT !.kind = "raise", !.exc = "YachaqError",
                      !.code = code, !.message = message]

AuthenticationError(message) ==
    [YachaqError(message, "AUTH_ERROR") EXCEPT !.exc = "AuthenticationError"]

\* Mutant: the constructor does not keep the list.
ValidationErrorDropsList(message, validation_errors) ==
    [YachaqError(message, "VALIDATION_ERROR") EXCEPT !.exc = "ValidationError"]

ValidationError(message, validation_errors) ==
    [YachaqError(message, "VALIDATION_ERROR") EXCEPT
        !.exc = "ValidationError", !.validation_errors = validation_errors]

NetworkError(message) ==
    [YachaqError(message, "NETWORK_ERROR") EXCEPT !.exc = "NetworkError"]

RateLimitError(message, retry_after) ==
    [YachaqError(message, "RATE_LIMIT") EXCEPT
        !.exc = "RateLimitError", !.retry_after = retry_after]

\* The classes of errors.py: the SDK's closed taxonomy.
SdkErrors ==
    {"YachaqError", "AuthenticationError", "ValidationError",
     "TierRestrictionError", "VerificationError", "NetworkError",
     "RateLimitError"}

(***************************************************************************)
(* JSON values that are not strings: t is "absent" (key missing), "null",  *)
(* "obj" (items = <<the object>>) or "list" (items = the elements).        *)
(***************************************************************************)
JAbsent == [t |-> "absent", items |-> <<>>]

JNull == [t |-> "null", items |-> <<>>]

JObj(o) == [t |-> "obj", items |-> <<o>>]

JList(s) == [t |-> "list", items |-> s]

\* Python truthiness of such a value: None, {} and [] are falsy.
Truthy(j) ==
    CASE j.t = "obj" -> j.items[1] # {}
      [] j.t = "list" -> j.items # <<>>
      [] OTHER -> FALSE

\* dict.get(key) is not None
IsNotNone(j) == j.t \notin {"absent", "null"}

Has(o, k) == \E p \in o : p[1] = k

Val(o, k) == (CHOOSE p \in o : p[1] = k)[2]

(***************************************************************************)
(* The pydantic models a response is deserialized into.  A field is        *)
(* <<name, alias, required>>; populate_by_name lets the name stand for the *)
(* alias.  A model is the set of <<name, value>> of all its fields.        *)
(***************************************************************************)
ModelFields(cls) ==
    CASE cls = "RequestCreationResult" ->
            {<<"success", "success", TRUE>>,
             <<"request_id", "requestId", FALSE>>,
             <<"status", "status", FALSE>>,
             <<"errors", "errors", FALSE>>,
             <<"suggestions", "suggestions", FALSE>>}
      [] cls = "RestrictionCheckResult" ->
            {<<"allowed", "allowed", TRUE>>,
             <<"violations", "violations", TRUE>>,
             <<"warnings", "warnings", TRUE>>}
      [] cls = "AuthResponse" ->
            {<<"access_token", "access_token", TRUE>>,
             <<"refresh_token", "refresh_token", TRUE>>,
             <<"expires_in", "expires_in", TRUE>>,
             <<"token_type", "token_type", TRUE>>}

PopulateByName(cls) == cls = "RequestCreationResult"

FieldKey(cls, f, o) ==
    IF Has(o, f[2]) THEN f[2]
    ELSE IF PopulateByName(cls) /\ Has(o, f[1]) THEN f[1]
    ELSE Absent

\* model_class(**o) succeeds when every required field is supplied.
Validates(cls, o) ==
    \A f \in ModelFields(cls) : f[3] => FieldKey(cls, f, o) # Absent

\* Mutant: the aliases are ignored, fields are read by name only.
DeserializeByNameOnly(cls, o) ==
    {<<f[1], IF Has(o, f[1]) THEN Val(o, f[1]) ELSE None>> : f \in ModelFields(cls)}

Deserialize(cls, o) ==
    {<<f[1], IF FieldKey(cls, f, o) = Absent THEN None
             ELSE Val(o, FieldKey(cls, f, o))>> : f \in ModelFields(cls)}

\* A model instance, tagged with its class.
Model(cls, m) == [t |-> cls, items |-> <<m>>]

\* model_class(**j) for a truthy JSON value j
ModelInit(cls, j) ==
    IF j.t # "obj" THEN Foreign("TypeError")
    ELSE IF ~Validates(cls, j.items[1]) THEN Foreign("PydanticValidationError")
    ELSE Return(Model(cls, Deserialize(cls, j.items[1])))

(***************************************************************************)
(* A response: status_code, the Retry-After header and the body.  A body   *)
(* that is JSON is an envelope; one that is not makes response.json()      *)
(* raise.                                                                  *)
(***************************************************************************)
NoHeader == [present |-> FALSE, val |-> <<>>]

Header(v) == [present |-> TRUE, val |-> v]

NonJson ==
    [json |-> FALSE, success |-> Absent, data |-> JAbsent, errorCode |-> Absent,
     errorMessage |-> Absent, validationErrors |-> JAbsent]

\* response.headers.get("Retry-After", "60")
RetryAfterHeader(response) ==
    IF response.retry_after.present THEN response.retry_after.val ELSE <<"6", "0">>

CheckStatus(response) ==
    IF response.status_code = 401
    THEN AuthenticationError("Authentication required or token expired")
    ELSE IF response.status_code = 429
    THEN LET retry_after == PyInt(RetryAfterHeader(response))
         IN  IF retry_after.ok
             THEN RateLimitError("Rate limit exceeded", retry_after.val)
             ELSE Foreign("ValueError")
    ELSE IF response.status_code >= 500
    THEN NetworkError("Server error: " \o ToString(response.status_code))
    ELSE NoOutcome

\* Mutant: the envelope is read before the status is checked.
HandleResponseEnvelopeFirst(response, model_class) ==
    LET checked == CheckStatus(response)
        data == response.body
    IN  IF ~data.json THEN Foreign("JSONDecodeError")
        ELSE IF data.success = "True" /\ Truthy(data.data)
        THEN ModelInit(model_class, data.data)
        ELSE IF Truthy(data.validationErrors)
        THEN ValidationError(GetDefault(data.errorMessage, "Validation failed"),
                             data.validationErrors.items)
        ELSE IF checked.kind = "raise" THEN checked
        ELSE YachaqError(GetDefault(data.errorMessage, "Request failed"),
                         GetDefault(data.errorCode, "UNKNOWN_ERROR"))

HandleResponse(response, model_class) ==
    LET checked == CheckStatus(response)
        data == response.body
    IN  IF checked.kind = "raise" THEN checked
        ELSE IF ~data.json THEN Foreign("JSONDecodeError")
        ELSE IF data.success = "True" /\ Truthy(data.data)
        THEN ModelInit(model_class, data.data)
        ELSE IF Truthy(data.validationErrors)
        THEN ValidationError(GetDefault(data.errorMessage, "Validation failed"),
                             data.validationErrors.items)
        ELSE YachaqError(GetDefault(data.errorMessage, "Request failed"),
                         GetDefault(data.errorCode, "UNKNOWN_ERROR"))

\* Mutant: response.json() is called before the status is checked.
HandleResponseRawParsesFirst(response) ==
    LET checked == CheckStatus(response)
        data == response.body
    IN  IF ~data.json THEN Foreign("JSONDecodeError")
        ELSE IF checked.kind = "raise" THEN checked
        ELSE IF data.success = "True" /\ IsNotNone(data.data)
        THEN Return(data.data)
        ELSE YachaqError(GetDefault(data.errorMessage, "Request failed"),
                         GetDefault(data.errorCode, "UNKNOWN_ERROR"))

HandleResponseRaw(response) ==
    LET checked == CheckStatus(response)
        data == response.body
    IN  IF checked.kind = "raise" THEN checked
        ELSE IF ~data.json THEN Foreign("JSONDecodeError")
        ELSE IF data.success = "True" /\ IsNotNone(data.data)
        THEN Return(data.data)
        ELSE YachaqError(GetDefault(data.errorMessage, "Request failed"),
                         GetDefault(data.errorCode, "UNKNOWN_ERROR"))

(***************************************************************************)
(* Requests.  An input model is a set of <<field, python type, value>>;    *)
(* model_dump(by_alias=True, exclude_none=True) renames the fields to      *)
(* their aliases, drops the None ones and keeps the python values, and     *)
(* httpx's json= encodes the body with json.dumps, which raises TypeError  *)
(* on a Decimal or a datetime (a str-based Enum is encoded as its str).    *)
(***************************************************************************)
InputAlias(name) ==
    CASE name = "template_id" -> "templateId"
      [] name = "required_labels" -> "requiredLabels"
      [] name = "optional_labels" -> "optionalLabels"
      [] name = "time_window" -> "timeWindow"
      [] name = "geo_criteria" -> "geoCriteria"
      [] name = "output_mode" -> "outputMode"
      [] name = "ttl_hours" -> "ttlHours"
      [] name = "request_id" -> "requestId"
      [] name = "capsule_id" -> "capsuleId"
      [] name = "evidence_ids" -> "evidenceIds"
      [] OTHER -> name

ModelDump(m) == {<<InputAlias(f[1]), f[2], f[3]>> : f \in {g \in m : g[3] # None}}

JsonTypes == {"str", "int", "float", "bool", "list", "OutputMode", "DisputeReason"}

JsonEncodable(body) ==
    \A i \in 1..Len(body.items) : \A f \in body.items[i] : f[2] \in JsonTypes

NoBody == [t |-> "none", items |-> <<>>]

\* _get_headers(): the Authorization header, or Absent
GetHeaders(token) ==
    IF token \notin {None, ""} THEN "Bearer " \o token ELSE Absent

Request(method, path, body, authorization) ==
    [method |-> method, path |-> path, json |-> body, authorization |-> authorization]

NoRequest == Request("", "", NoBody, Absent)

NoResponse == [status_code |-> 0, retry_after |-> NoHeader, body |-> NonJson]

Idle ==
    [pc |-> "idle", op |-> "", arg |-> NoBody, request |-> NoRequest,
     response |-> NoResponse, outcome |-> NoOutcome]

(***************************************************************************)
(* Bounds of the model: the inputs the caller passes and the responses the *)
(* server gives.                                                           *)
(***************************************************************************)
MaxBatch == 2

MaxTeardowns == 2

Tokens == {"tokA", "tokB"}

ApiKeys == {"key1"}

\* RequestConfig(required_labels=["health:steps"], compensation=5.00,
\*               output_mode="AGGREGATE_ONLY")
ConfigScenario ==
    {<<"template_id", "NoneType", None>>,
     <<"required_labels", "list", "health:steps">>,
     <<"optional_labels", "NoneType", None>>,
     <<"time_window", "NoneType", None>>,
     <<"geo_criteria", "NoneType", None>>,
     <<"compensation", "Decimal", "5.00">>,
     <<"output_mode", "OutputMode", "AGGREGATE_ONLY">>,
     <<"ttl_hours", "NoneType", None>>}

ConfigTtl ==
    {<<"template_id", "str", "tpl-1">>,
     <<"required_labels", "list", "health:sleep">>,
     <<"optional_labels", "NoneType", None>>,
     <<"time_window", "NoneType", None>>,
     <<"geo_criteria", "NoneType", None>>,
     <<"compensation", "Decimal", "12.50">>,
     <<"output_mode", "OutputMode", "RAW">>,
     <<"ttl_hours", "int", "24">>}

Configs == {ConfigScenario, ConfigTtl}

RECURSIVE SeqsUpTo(_, _)
SeqsUpTo(S, n) ==
    IF n = 0 THEN {<<>>}
    ELSE LET shorter == SeqsUpTo(S, n - 1)
         IN  shorter \cup {Append(q, x) : q \in shorter, x \in S}

DisputeRequests ==
    {{<<"request_id", "str", "r1">>,
      <<"capsule_id", "str", "c1">>,
      <<"reason", "DisputeReason", "DATA_QUALITY">>,
      <<"description", "str", "bad rows">>,
      <<"evidence_ids", "NoneType", None>>}}

RestrictionArgs ==
    {{<<"output_mode", "str", "RAW">>,
      <<"compensation", "float", "5.0">>,
      <<"labels", "list", "health:steps">>}}

\* Objects the server may put under "data".
ResultObj(id) == {<<"success", "True">>, <<"requestId", id>>, <<"status", "DRAFT">>}

ScenarioObj == {<<"requestId", "r1">>, <<"status", "DRAFT">>}

RestrictionObj == {<<"allowed", "True">>, <<"violations", "[]">>, <<"warnings", "[]">>}

DisputeObj == {<<"disputeId", "d1">>, <<"status", "FILED">>}

AuthObj(token) ==
    {<<"access_token", token>>, <<"refresh_token", "refresh">>,
     <<"expires_in", "3600">>, <<"token_type", "Bearer">>}

AuthObjCamel(token) ==
    {<<"accessToken", token>>, <<"refreshToken", "refresh">>,
     <<"expiresIn", "3600">>, <<"tokenType", "Bearer">>}

DataValues(op) ==
    {JAbsent, JNull, JObj({}), JList(<<>>)} \cup
    CASE op = "create_request" ->
            {JObj(ScenarioObj), JObj(ResultObj("r1")),
             JObj({<<"success", "False">>, <<"request_id", "r9">>})}
      [] op = "create_requests_batch" ->
            {JList(<<ResultObj("r2"), ResultObj("r1")>>), JList(<<ScenarioObj>>),
             JObj(ResultObj("r1"))}
      [] op = "check_restrictions" ->
            {JObj(RestrictionObj), JObj({<<"allowed", "True">>})}
      [] op = "file_dispute" -> {JObj(DisputeObj)}
      [] op = "authenticate" ->
            {JObj(AuthObj("tokA")), JObj(AuthObj("tokB")), JObj(AuthObjCamel("tokA"))}
      [] OTHER -> {}

ValidationErrorValues ==
    {JAbsent, JNull, JList(<<>>), JList(<<"v1">>), JList(<<"v2", "v1">>)}

Ops ==
    {"authenticate", "create_request", "create_requests_batch",
     "check_restrictions", "file_dispute"}

Envelopes(datas) ==
    [json : {TRUE},
     success : {Absent, "True", "False"},
     data : datas,
     errorCode : {Absent, None, "E42"},
     errorMessage : {Absent, None, "boom"},
     validationErrors : ValidationErrorValues]

RetryAfterValues ==
    {<<"3", "0">>, <<"0">>, <<" ", "7">>, <<"-", "5">>, <<>>, <<"W", "e", "d">>}

RetryAfterHeaders == {NoHeader} \cup {Header(v) : v \in RetryAfterValues}

\* The responses the classification is checked on: every envelope with
\* every status, and the Retry-After header varied where it is read.
ClassifyResponses ==
    LET bodies == {NonJson} \cup Envelopes(UNION {DataValues(op) : op \in Ops})
    IN  [status_code : {200, 400, 401, 500, 503}, retry_after : {NoHeader}, body : bodies]
        \cup
        [status_code : {429}, retry_after : RetryAfterHeaders,
         body : {b \in bodies : b.errorCode = Absent /\ b.errorMessage = Absent}]

\* The responses the server gives an operation of the client.
ClientResponses(op) ==
    [status_code : {200, 401, 429, 500},
     retry_after : {NoHeader, Header(<<"3", "0">>)},
     body : {NonJson} \cup
            {e \in Envelopes(DataValues(op)) :
                /\ e.errorCode = Absent
                /\ e.errorMessage \in {Absent, "boom"}
                /\ e.validationErrors \in {JAbsent, JList(<<"v2", "v1">>)}
                /\ e.success = "True" <=> e.errorMessage = Absent
                /\ e.success = "True" <=> e.validationErrors = JAbsent
                /\ e.success # Absent}]

TransportErrors == {"httpx.ConnectError", "httpx.ConnectTimeout"}

(***************************************************************************)
(* What each operation does with the response once the transport has       *)
(* returned it (the code after the await).                                 *)
(***************************************************************************)
\* [model_class(**r) for r in data]: iterating a dict yields its keys.
ListComprehension(cls, data) ==
    IF data.t = "obj"
    THEN IF data.items[1] = {} THEN Return(JList(<<>>)) ELSE Foreign("TypeError")
    ELSE IF \E i \in 1..Len(data.items) : ~Validates(cls, data.items[i])
    THEN Foreign("PydanticValidationError")
    ELSE Return(JList([i \in 1..Len(data.items) |->
                        Model(cls, Deserialize(cls, data.items[i]))]))

CreateRequestsBatchResult(response) ==
    LET data == HandleResponseRaw(response)
    IN  IF data.kind = "raise" THEN data
        ELSE ListComprehension("RequestCreationResult", data.value)

AuthenticateResult(response) ==
    LET data == response.body
    IN  IF ~data.json THEN Foreign("JSONDecodeError")
        ELSE IF data.success = "True" /\ Truthy(data.data)
        THEN ModelInit("AuthResponse", data.data)
        ELSE AuthenticationError(GetDefault(data.errorMessage, "Authentication failed"))

Result(op, response) ==
    CASE op = "authenticate" -> AuthenticateResult(response)
      [] op = "create_request" -> HandleResponse(response, "RequestCreationResult")
      [] op = "create_requests_batch" -> CreateRequestsBatchResult(response)
      [] op = "check_restrictions" -> HandleResponse(response, "RestrictionCheckResult")
      [] op = "file_dispute" -> HandleResponseRaw(response)

\* Mutant: a failed authenticate forgets the token that was held.
TokenAfterClearsOnFailure(op, outcome, token) ==
    IF op = "authenticate"
    THEN IF outcome.kind = "return"
         THEN Val(outcome.value.items[1], "access_token")
         ELSE None
    ELSE token

\* self._access_token after the operation: authenticate stores auth.access_token
TokenAfter(op, outcome, token) ==
    IF op = "authenticate" /\ outcome.kind = "return"
    THEN Val(outcome.value.items[1], "access_token")
    ELSE token

(***************************************************************************)
(* The client.                                                             *)
(***************************************************************************)
Init ==
    /\ api_key \in {None} \cup ApiKeys
    /\ access_token \in {None} \cup Tokens
    /\ call = Idle
    /\ closed = FALSE
    /\ released = 0
    /\ teardowns = 0
    /\ calls = <<>>

\* self._client.post(path, json=body, headers=...): a body json.dumps cannot
\* encode raises while the request is built; a closed httpx client then
\* refuses to send it (RuntimeError); otherwise the request goes out.
Posted(op, arg, path, body, authorization) ==
    IF ~JsonEncodable(body)
    THEN [Idle EXCEPT !.pc = "done", !.op = op, !.arg = arg,
                      !.outcome = Foreign("TypeError")]
    ELSE IF closed
    THEN [Idle EXCEPT !.pc = "done", !.op = op, !.arg = arg,
                      !.outcome = Foreign("RuntimeError")]
    ELSE [Idle EXCEPT !.pc = "awaiting", !.op = op, !.arg = arg,
                      !.request = Request("POST", path, body, authorization)]

Post(op, arg, path, body, authorization) ==
    /\ call.pc = "idle"
    /\ call' = Posted(op, arg, path, body, authorization)
    /\ UNCHANGED <<api_key, access_token, conn, calls>>

\* authenticate up to its await: the key, the check of it, the request.
AuthenticateStarted(key_arg) ==
    LET key == IF key_arg \notin {None, ""} THEN key_arg ELSE api_key
        arg == JObj({<<"api_key", IF key_arg = None THEN "NoneType" ELSE "str", key_arg>>})
    IN  IF key \in {None, ""}
        THEN [Idle EXCEPT !.pc = "done", !.op = "authenticate", !.arg = arg,
                          !.outcome = AuthenticationError("API key is required")]
        ELSE Posted("authenticate", arg, "/v1/auth/token",
                    JObj({<<"apiKey", "str", key>>}), Absent)

Authenticate(key_arg) ==
    /\ call.pc = "idle"
    /\ call' = AuthenticateStarted(key_arg)
    /\ UNCHANGED <<api_key, access_token, conn, calls>>

CreateRequest(config) ==
    Post("create_request", JObj(config), "/v1/requests",
         JObj(ModelDump(config)), GetHeaders(access_token))

CreateRequestsBatch(configs) ==
    Post("create_requests_batch", JList(configs), "/v1/requests/batch",
         JList([i \in 1..Len(configs) |-> ModelDump(configs[i])]),
         GetHeaders(access_token))

\* check_restrictions up to its await.
CheckRestrictionsStarted(args) ==
    Posted("check_restrictions", JObj(args), "/v1/requester/restrictions/check",
           JObj({<<"outputMode", "str", Val(args, "output_mode")>>,
                 <<"compensation", "float", Val(args, "compensation")>>,
                 <<"requiredLabels", "list", Val(args, "labels")>>,
                 <<"identityReveal", "bool", "False">>}),
           GetHeaders(access_token))

CheckRestrictions(args) ==
    /\ call.pc = "idle"
    /\ call' = CheckRestrictionsStarted(args)
    /\ UNCHANGED <<api_key, access_token, conn, calls>>

FileDispute(request) ==
    Post("file_dispute", JObj(request), "/v1/disputes",
         JObj(ModelDump(request)), GetHeaders(access_token))

\* The awaited call returns a response; the rest of the operation runs.
Receive(response) ==
    /\ call.pc = "awaiting"
    /\ LET outcome == Result(call.op, response)
       IN  /\ call' = [call EXCEPT !.pc = "done", !.response = response,
                                   !.outcome = outcome]
           /\ access_token' = TokenAfter(call.op, outcome, access_token)
    /\ UNCHANGED <<api_key, conn, calls>>

\* The awaited call raises: no connection, a timeout.  Nothing catches it.
TransportFailure(error) ==
    /\ call.pc = "awaiting"
    /\ call' = [call EXCEPT !.pc = "done", !.outcome = Foreign(error)]
    /\ UNCHANGED <<api_key, access_token, conn, calls>>

\* The caller has its value or its exception.
Finish ==
    /\ call.pc = "done"
    /\ call' = Idle
    /\ UNCHANGED <<api_key, access_token, conn, calls>>

SetAccessToken(token) ==
    /\ access_token' = token
    /\ UNCHANGED <<api_key, call, conn, calls>>

\* Mutant: aclose() releases the transport whatever the client's state is.
CloseReleasesAgain ==
    /\ teardowns < MaxTeardowns
    /\ teardowns' = teardowns + 1
    /\ closed' = TRUE
    /\ released' = released + 1
    /\ UNCHANGED <<api_key, access_token, call, calls>>

\* close(), also run by __aexit__: await self._client.aclose().  httpx
\* releases the transport only if the client is not closed yet.
Close ==
    /\ teardowns < MaxTeardowns
    /\ teardowns' = teardowns + 1
    /\ closed' = TRUE
    /\ released' = IF closed THEN released ELSE released + 1
    /\ UNCHANGED <<api_key, access_token, call, calls>>

Next ==
    \/ \E key \in {None} \cup ApiKeys : Authenticate(key)
    \/ \E config \in Configs : CreateRequest(config)
    \/ \E configs \in SeqsUpTo(Configs, MaxBatch) : CreateRequestsBatch(configs)
    \/ \E args \in RestrictionArgs : CheckRestrictions(args)
    \/ \E request \in DisputeRequests : FileDispute(request)
    \/ \E response \in ClientResponses(call.op) : Receive(response)
    \/ \E error \in TransportErrors : TransportFailure(error)
    \/ Finish
    \/ \E token \in Tokens : SetAccessToken(token)
    \/ Close

Spec == Init /\ [][Next]_vars

(***************************************************************************)
(* Several callers on one client: each awaits its own network call, and    *)
(* the code between two awaits runs without interruption.  A task that is  *)
(* cancelled gets CancelledError at its await.                             *)
(***************************************************************************)
NumProcs == 2

Procs == 1..NumProcs

ConcurrentResponses(op) ==
    [status_code : {200},
     retry_after : {NoHeader},
     body : {e \in Envelopes(DataValues(op)) :
                /\ e.errorCode = Absent
                /\ e.validationErrors = JAbsent
                /\ \/ /\ e.success = "True"
                      /\ e.errorMessage = Absent
                      /\ e.data \in {JObj(AuthObj(t)) : t \in Tokens} \cup {JObj(RestrictionObj)}
                   \/ /\ e.success = "False"
                      /\ e.errorMessage = "boom"
                      /\ e.data = JAbsent}]

InitConcurrent ==
    /\ api_key \in {None} \cup ApiKeys
    /\ access_token \in {None} \cup Tokens
    /\ call = Idle
    /\ closed = FALSE
    /\ released = 0
    /\ teardowns = 0
    /\ calls = [p \in Procs |-> Idle]

Started(p, started) ==
    /\ calls[p].pc = "idle"
    /\ calls' = [calls EXCEPT ![p] = started]
    /\ UNCHANGED <<api_key, access_token, call, conn>>

ConcurrentAuthenticate(p, key_arg) == Started(p, AuthenticateStarted(key_arg))

ConcurrentCheckRestrictions(p, args) == Started(p, CheckRestrictionsStarted(args))

ConcurrentReceive(p, response) ==
    /\ calls[p].pc = "awaiting"
    /\ LET outcome == Result(calls[p].op, response)
       IN  /\ calls' = [calls EXCEPT ![p] = [@ EXCEPT !.pc = "done",
                                                    !.response = response,
                                                    !.outcome = outcome]]
           /\ access_token' = TokenAfter(calls[p].op, outcome, access_token)
    /\ UNCHANGED <<api_key, call, conn>>

\* The awaited call raises: a transport error, or the task was cancelled.
ConcurrentRaise(p, error) ==
    /\ calls[p].pc = "awaiting"
    /\ calls' = [calls EXCEPT ![p] = [@ EXCEPT !.pc = "done", !.outcome = Foreign(error)]]
    /\ UNCHANGED <<api_key, access_token, call, conn>>

ConcurrentFinish(p) ==
    /\ calls[p].pc = "done"
    /\ calls' = [calls EXCEPT ![p] = Idle]
    /\ UNCHANGED <<api_key, access_token, call, conn>>

NextConcurrent ==
    \/ \E p \in Procs, key \in {None} \cup ApiKeys : ConcurrentAuthenticate(p, key)
    \/ \E p \in Procs, args \in RestrictionArgs : ConcurrentCheckRestrictions(p, args)
    \/ \E p \in Procs : \E response \in ConcurrentResponses(calls[p].op) :
          ConcurrentReceive(p, response)
    \/ \E p \in Procs : ConcurrentRaise(p, "httpx.ConnectTimeout")
    \/ \E p \in Procs : ConcurrentRaise(p, "asyncio.CancelledError")
    \/ \E p \in Procs : ConcurrentFinish(p)
    \/ \E token \in Tokens : SetAccessToken(token)

SpecConcurrent == InitConcurrent /\ [][NextConcurrent]_vars

(***************************************************************************)
(* The response classification on its own: _handle_response with a model   *)
(* class, or _handle_response_raw, applied to one response.                *)
(***************************************************************************)
ModelClasses == {"RequestCreationResult", "RestrictionCheckResult"}

Handlers ==
    {[op |-> "_handle_response", arg |-> Model(cls, {})] : cls \in ModelClasses}
    \cup {[op |-> "_handle_response_raw", arg |-> NoBody]}

InitClassify ==
    /\ api_key = None
    /\ access_token = None
    /\ closed = FALSE
    /\ released = 0
    /\ teardowns = 0
    /\ calls = <<>>
    /\ \E h \in Handlers, response \in ClassifyResponses :
          call = [Idle EXCEPT !.pc = "received", !.op = h.op, !.arg = h.arg,
                              !.response = response]

Classify ==
    /\ call.pc = "received"
    /\ call' = [call EXCEPT
                  !.pc = "done",
                  !.outcome = IF call.op = "_handle_response"
                              THEN HandleResponse(call.response, call.arg.t)
                              ELSE HandleResponseRaw(call.response)]
    /\ UNCHANGED <<api_key, access_token, conn, calls>>

NextClassify == Classify

SpecClassify == InitClassify /\ [][NextClassify]_vars

(***************************************************************************)
(* Properties of the response classification (SpecClassify).               *)
(***************************************************************************)
Classified == call.pc = "done" /\ call.op \in {"_handle_response", "_handle_response_raw"}

\* The status is none of those decided before the body is read.
StatusPasses(response) ==
    response.status_code \notin {401, 429} /\ response.status_code < 500

\* C1: a response with status 401 is classified as an AuthenticationError
\* (code AUTH_ERROR) by both handlers, whatever its body is.
C1_Status401IsAuthenticationError ==
    (Classified /\ call.response.status_code = 401) =>
        /\ call.outcome.kind = "raise"
        /\ call.outcome.exc = "AuthenticationError"
        /\ call.outcome.code = "AUTH_ERROR"

\* A 401 whose body looks like a validation failure has been classified by
\* the typed handler.
C1_Witness ==
    /\ Classified
    /\ call.op = "_handle_response"
    /\ call.response.status_code = 401
    /\ call.response.body.json
    /\ call.response.body.success = "False"
    /\ call.response.body.validationErrors = JList(<<"v2", "v1">>)
    /\ call.outcome.exc = "AuthenticationError"

\* What the Retry-After header stands for according to C2: its value when it
\* is present and a non-negative integer, 60 in every other case.
ClaimedRetryAfter(response) ==
    LET h == response.retry_after
    IN  IF h.present /\ PyInt(h.val).ok /\ PyInt(h.val).val >= 0
        THEN PyInt(h.val).val
        ELSE 60

\* C2: a response with status 429 is classified as a RateLimitError (code
\* RATE_LIMIT) whose retry_after is the Retry-After header when that is a
\* non-negative integer and 60 otherwise; nothing else is raised.
C2_Status429IsRateLimitError ==
    (Classified /\ call.response.status_code = 429) =>
        /\ call.outcome.kind = "raise"
        /\ call.outcome.exc = "RateLimitError"
        /\ call.outcome.code = "RATE_LIMIT"
        /\ call.outcome.retry_after = ClaimedRetryAfter(call.response)

\* C3: a response with status >= 500 is classified as a NetworkError (code
\* NETWORK_ERROR) whose message carries the status code; the body is not
\* parsed, so a body that is no JSON gives the NetworkError too.
C3_Status5xxIsNetworkError ==
    (Classified /\ call.response.status_code >= 500) =>
        /\ call.outcome.kind = "raise"
        /\ call.outcome.exc = "NetworkError"
        /\ call.outcome.code = "NETWORK_ERROR"
        /\ call.outcome.message = "Server error: " \o ToString(call.response.status_code)

\* A 503 with a body that is no JSON has been classified by the raw handler.
C3_Witness ==
    /\ Classified
    /\ call.op = "_handle_response_raw"
    /\ call.response.status_code = 503
    /\ ~call.response.body.json
    /\ call.outcome.exc = "NetworkError"

\* C4: an envelope with success=true and data absent or null is classified,
\* by both handlers, as a generic YachaqError, whatever its other fields are.
C4_SuccessWithoutDataIsGenericError ==
    (/\ Classified
     /\ StatusPasses(call.response)
     /\ call.response.body.json
     /\ call.response.body.success = "True"
     /\ call.response.body.data \in {JAbsent, JNull}) =>
        /\ call.outcome.kind = "raise"
        /\ call.outcome.exc = "YachaqError"

ReachesDeserialization(typed) ==
    typed.kind = "return" \/ typed.exc \in {"TypeError", "PydanticValidationError"}

\* C6: the raw handler classifies as the typed handler does: it returns
\* data, unchanged, exactly when the typed handler reaches deserialization,
\* and otherwise raises the same kind of error.
C6_RawClassifiesAsTyped ==
    (Classified /\ call.op = "_handle_response_raw") =>
        \A cls \in ModelClasses :
            LET typed == HandleResponse(call.response, cls)
            IN  /\ call.outcome.kind = "return" <=> ReachesDeserialization(typed)
                /\ call.outcome.kind = "return" =>
                      call.outcome.value = call.response.body.data
                /\ call.outcome.kind = "raise" =>
                      /\ call.outcome.exc = typed.exc
                      /\ call.outcome.validation_errors = typed.validation_errors

\* The object under data supplies (by alias or by name) every required field.
HasRequiredFields(cls, j) ==
    /\ j.t = "obj"
    /\ \A f \in ModelFields(cls) : f[3] => (Has(j.items[1], f[2]) \/ Has(j.items[1], f[1]))

\* C7: with status 200, success=true and data holding every required field
\* of the model class, the typed handler returns the model built from
\* data: each field has the value data gives it, None if data gives none.
C7_TypedSuccessReturnsModel ==
    (/\ Classified
     /\ call.op = "_handle_response"
     /\ call.response.status_code = 200
     /\ call.response.body.json
     /\ call.response.body.success = "True"
     /\ HasRequiredFields(call.arg.t, call.response.body.data)) =>
        LET o == call.response.body.data.items[1]
            m == call.outcome.value.items[1]
        IN  /\ call.outcome.kind = "return"
            /\ call.outcome.value.t = call.arg.t
            /\ {p[1] : p \in m} = {f[1] : f \in ModelFields(call.arg.t)}
            /\ \A f \in ModelFields(call.arg.t) :
                  Val(m, f[1]) = IF Has(o, f[2]) THEN Val(o, f[2])
                                 ELSE IF Has(o, f[1]) THEN Val(o, f[1])
                                 ELSE None

\* A RequestCreationResult has been returned from an envelope that also
\* carries an errorCode and validationErrors.
C7_Witness ==
    /\ Classified
    /\ call.op = "_handle_response"
    /\ call.arg.t = "RequestCreationResult"
    /\ call.response.status_code = 200
    /\ call.response.body.success = "True"
    /\ call.response.body.data = JObj(ResultObj("r1"))
    /\ call.response.body.errorCode = "E42"
    /\ call.response.body.validationErrors = JList(<<"v1">>)
    /\ call.outcome.kind = "return"
    /\ Val(call.outcome.value.items[1], "request_id") = "r1"

\* The server's answer of the scenario of C8.
ScenarioResponse ==
    [status_code |-> 200, retry_after |-> NoHeader,
     body |-> [json |-> TRUE, success |-> "True", data |-> JObj(ScenarioObj),
               errorCode |-> Absent, errorMessage |-> Absent,
               validationErrors |-> JAbsent]]

\* C8: create_request hands the scenario's answer {success: true, data:
\* {requestId: "r1", status: "DRAFT"}} to _handle_response with
\* RequestCreationResult, and the caller gets a result with request_id "r1".
C8_ScenarioReturnsR1 ==
    (/\ Classified
     /\ call.op = "_handle_response"
     /\ call.arg.t = "RequestCreationResult"
     /\ call.response = ScenarioResponse) =>
        /\ call.outcome.kind = "return"
        /\ Val(call.outcome.value.items[1], "request_id") = "r1"

\* C9: an envelope with success=false and no validation errors is classified
\* as a generic YachaqError whose code is the errorCode, "UNKNOWN_ERROR" when
\* that is absent or null, and whose message is the errorMessage, "Request
\* failed" when that is absent or null; neither is ever None.
C9_ApplicationErrorFallbacks ==
    (/\ Classified
     /\ StatusPasses(call.response)
     /\ call.response.body.json
     /\ call.response.body.success = "False"
     /\ ~Truthy(call.response.body.validationErrors)) =>
        /\ call.outcome.kind = "raise"
        /\ call.outcome.exc = "YachaqError"
        /\ call.outcome.code =
              IF call.response.body.errorCode \in {Absent, None}
              THEN "UNKNOWN_ERROR" ELSE call.response.body.errorCode
        /\ call.outcome.message =
              IF call.response.body.errorMessage \in {Absent, None}
              THEN "Request failed" ELSE call.response.body.errorMessage
        /\ call.outcome.code # None
        /\ call.outcome.message # None

(***************************************************************************)
(* Properties of the client's operations (Spec).                           *)
(***************************************************************************)
\* The request went out and the transport raised instead of answering.
TransportFailed ==
    /\ call.pc = "done"
    /\ call.request # NoRequest
    /\ call.response = NoResponse

\* C10: an operation whose transport call cannot complete fails with a
\* NetworkError (code NETWORK_ERROR), an error of the SDK's taxonomy.
C10_TransportFailureIsNetworkError ==
    TransportFailed =>
        /\ call.outcome.kind = "raise"
        /\ call.outcome.exc = "NetworkError"
        /\ call.outcome.code = "NETWORK_ERROR"
        /\ call.outcome.exc \in SdkErrors

\* C11: the connection is open from construction until the first teardown
\* and is released exactly once; a later teardown changes nothing; an
\* operation invoked after a teardown ends at once with an exception, with no
\* request sent and no value returned.
C11_TeardownReleasesOnce ==
    /\ [](closed <=> teardowns > 0)
    /\ [](released = IF teardowns = 0 THEN 0 ELSE 1)
    /\ [][(teardowns >= 1 /\ teardowns' > teardowns) =>
             UNCHANGED <<api_key, access_token, call, closed, released>>]_vars
    /\ [][(closed /\ call.pc = "idle" /\ call'.pc # "idle") =>
             /\ call'.pc = "done"
             /\ call'.outcome.kind = "raise"
             /\ call'.request = NoRequest
             /\ call'.outcome.value = NoValue]_vars

\* After two teardowns an operation has been refused by the closed client.
C11_Witness ==
    /\ teardowns = 2
    /\ released = 1
    /\ call.pc = "done"
    /\ call.op = "file_dispute"
    /\ call.outcome.exc = "RuntimeError"

\* The accessToken of an auth payload, in the wire's or in the model's naming.
PayloadToken(j) ==
    IF Has(j.items[1], "accessToken") THEN Val(j.items[1], "accessToken")
    ELSE Val(j.items[1], "access_token")

AuthPayloads ==
    {JObj(AuthObj(t)) : t \in Tokens} \cup {JObj(AuthObjCamel(t)) : t \in Tokens}

\* The Authorization header an operation issued with this token must send.
BearerOf(token) == IF token = None THEN Absent ELSE "Bearer " \o token

\* C12: when authenticate gets a success envelope with an auth payload, it
\* returns and the held token is the payload's accessToken; every domain
\* operation sends "Bearer <held token>", and no Authorization header exactly
\* when no token is held.
C12_AuthenticateSetsToken ==
    /\ [][(/\ call.pc = "awaiting"
           /\ call.op = "authenticate"
           /\ call'.pc = "done"
           /\ call'.response.status_code = 200
           /\ call'.response.body.json
           /\ call'.response.body.success = "True"
           /\ call'.response.body.data \in AuthPayloads) =>
              /\ call'.outcome.kind = "return"
              /\ access_token' = PayloadToken(call'.response.body.data)]_vars
    /\ [][(call.pc = "idle" /\ call'.pc = "awaiting" /\ call'.op # "authenticate") =>
              call'.request.authorization = BearerOf(access_token)]_vars


\* A caller's successful authenticate completes in this step.
AuthenticateSucceeds(p) ==
    /\ calls[p].pc = "awaiting"
    /\ calls[p].op = "authenticate"
    /\ calls'[p].pc = "done"
    /\ calls'[p].outcome.kind = "return"

\* C13: with several callers sharing one client, the access token is the
\* only state that changes: a successful authenticate replaces it with the
\* token it returns (the last one to complete wins), the setter replaces
\* it, and nothing else does (not a failed, cancelled or other operation);
\* the API key and the connection state stay as they were; every request of
\* an authenticated operation carries the token held at the moment the
\* request is built, whatever happens to the token while it is in flight.
C13_TokenIsTheOnlySharedState ==
    /\ [][UNCHANGED <<api_key, closed, released, teardowns>>]_vars
    /\ [][\A p \in Procs : AuthenticateSucceeds(p) =>
             access_token' = Val(calls'[p].outcome.value.items[1], "access_token")]_vars
    /\ [][access_token' # access_token =>
             \/ \E p \in Procs : AuthenticateSucceeds(p)
             \/ calls' = calls /\ access_token' \in Tokens]_vars
    /\ [][\A p \in Procs :
             (calls[p].pc = "idle" /\ calls'[p].pc = "awaiting"
              /\ calls'[p].op # "authenticate") =>
                 calls'[p].request.authorization =
                     (IF access_token = None THEN Absent ELSE "Bearer " \o access_token)]_vars
    /\ [](\A p \in Procs : calls[p].pc = "awaiting" => calls[p].outcome = NoOutcome)

\* One caller's request is in flight with the token it was built with
\* while another caller's authenticate has since replaced the token, and
\* a cancelled caller has left the token alone.
C13_Witness ==
    /\ calls[1].pc = "awaiting"
    /\ calls[1].op = "check_restrictions"
    /\ calls[1].request.authorization = "Bearer tokA"
    /\ calls[2].pc = "done"
    /\ calls[2].op = "authenticate"
    /\ calls[2].outcome.kind = "return"
    /\ access_token = "tokB"


\* The response is a success envelope whose data is an array of result objects.
BatchSuccess(response) ==
    /\ response.status_code = 200
    /\ response.body.json
    /\ response.body.success = "True"
    /\ response.body.data.t = "list"
    /\ \A i \in 1..Len(response.body.data.items) :
          HasRequiredFields("RequestCreationResult", response.body.data.items[i])

\* C14: create_requests_batch with n inputs issues exactly one request,
\* POST /v1/requests/batch, whose body is the n serialized inputs in input
\* order; a success envelope with an array of k result objects gives the
\* caller k typed RequestCreationResult values in the array's order; any
\* failure gives an error and no list.
C14_BatchIsOneRequest ==
    (call.op = "create_requests_batch" /\ call.pc = "done" /\ ~closed) =>
        /\ call.request.method = "POST"
        /\ call.request.path = "/v1/requests/batch"
        /\ call.request.json.t = "list"
        /\ Len(call.request.json.items) = Len(call.arg.items)
        /\ \A i \in 1..Len(call.arg.items) :
              call.request.json.items[i] = ModelDump(call.arg.items[i])
        /\ BatchSuccess(call.response) =>
              /\ call.outcome.kind = "return"
              /\ call.outcome.value.t = "list"
              /\ Len(call.outcome.value.items) = Len(call.response.body.data.items)
              /\ \A i \in 1..Len(call.response.body.data.items) :
                    call.outcome.value.items[i].t = "RequestCreationResult"
        /\ call.outcome.kind = "raise" => call.outcome.value = NoValue


\* The exception class the status code alone decides, "" when it decides none.
ExceptionOfStatus(status_code) ==
    IF status_code = 401 THEN "AuthenticationError"
    ELSE IF status_code = 429 THEN "RateLimitError"
    ELSE IF status_code >= 500 THEN "NetworkError"
    ELSE ""

\* C15: authenticate classifies its response as every other operation does:
\* a 429 raises RateLimitError, a status >= 500 raises NetworkError whatever
\* the body is (a body that is not JSON is never parsed), a 401 raises
\* AuthenticationError; and in these cases the held token stays as it was.
C15_AuthenticateChecksStatus ==
    /\ [](( /\ call.op = "authenticate"
            /\ call.pc = "done"
            /\ ExceptionOfStatus(call.response.status_code) # "") =>
                /\ call.outcome.kind = "raise"
                /\ call.outcome.exc = ExceptionOfStatus(call.response.status_code))
    /\ [][( /\ call.op = "authenticate"
            /\ call.pc = "awaiting"
            /\ call'.pc = "done"
            /\ ExceptionOfStatus(call'.response.status_code) # "") =>
                access_token' = access_token]_vars

=============================================================================
